---- MODULE Spec2Model ----
(***************************************************************************)
(* Maximal-length sequence generator (src/sequence/src/msequence.c).       *)
(*                                                                         *)
(* An `unsigned int` is 32 bits wide.  It is modelled as the set of the    *)
(* positions (0 = least significant) of its 1 bits, so that every value up *)
(* to 0xFFFFFFFF is represented exactly: `&` is intersection, `|` is union *)
(* and a shift moves the positions and drops those that leave the word.    *)
(***************************************************************************)
EXTENDS Integers, Sequences, FiniteSets

VARIABLES
    ms,        \* the msequence_s object the caller's handle points at
    ms0,       \* the object as its constructor returned it
    heap,      \* "none" | "allocated" | "freed": the storage behind the handle;
               \* "corrupt" | "aborted": what freeing it again may come to
    bs,        \* the bsequence: the bits pushed since its last reset, in order
    last,      \* the last call made on ms (or the constructor call that failed):
               \* its name, arguments and returned value
    hist,      \* bits returned by msequence_advance in the current epoch
    epoch,     \* "create" | "reset": what started the epoch; "none": not followed
    restored,  \* a get_state / set_state round trip happened in the epoch
    nadv,      \* calls of msequence_advance counted since construction (or
               \* reset), in the specifications that count them
    nones,     \* how many of those calls returned 1
    table,     \* the static array msequence_default, as it stands in memory
    ctor,      \* the constructor call that made ms
    ms2,       \* a second object, made by the same constructor call as ms
    heap2,     \* "none" | "allocated": the storage of the second object
    hist2      \* bits msequence_advance returned for the second object

\* the static table and the second object
twin == <<table, ctor, ms2, heap2, hist2>>

vars == <<ms, ms0, heap, bs, last, hist, epoch, restored, nadv, nones,
          table, ctor, ms2, heap2, hist2>>

----------------------------------------------------------------------------
(* Bounds of the model *)

\* ops other than construction and destruction are explored on registers of
\* at most this length
MaxOpM == 3

\* bits followed per epoch
MaxHist == 8

\* the largest bits-per-symbol asked of msequence_generate_symbol
MaxBps == 33

\* registers of at most this length have all their states enumerated
MaxInjM == 5

\* advances made of the second of two objects
MaxTwinAdv == 3

\* advances made of a register of any length
MaxWideAdv == 4

\* the longest default generator a whole bsequence is filled from
MaxFillM == 5

----------------------------------------------------------------------------
(* unsigned int *)

Bits32 == 0..31

\* the word holding the integer x, 0 <= x < 2^31
W(x) == {i \in 0..30 : (x \div (2^i)) % 2 = 1}

\* 0xFFFFFFFF
AllOnes == Bits32

\* 0x01
One == {0}

\* the word holding the bit b
Bit(b) == IF b = 1 THEN One ELSE {}

Max(S) == CHOOSE i \in S : \A j \in S : j <= i

Min(S) == CHOOSE i \in S : \A j \in S : i <= j

\* x << k
Shl(x, k) == {i + k : i \in x} \cap Bits32

\* x >> k
Shr(x, k) == {i - k : i \in {j \in x : j >= k}}

\* x - 1, wrapping
Dec(x) == IF x = {} THEN Bits32 ELSE (x \ {Min(x)}) \cup (0..(Min(x) - 1))

\* x <= y
LeqU(x, y) == x = y \/ Max((x \ y) \cup (y \ x)) \in y

\* the integer a word below 2^31 holds
RECURSIVE Val(_)
Val(x) == IF x = {} THEN 0 ELSE 2^Max(x) + Val(x \ {Max(x)})

----------------------------------------------------------------------------
(* external collaborators *)

\* the OR of the bits of the bitwise AND, not their parity
liquid_bdotprod_or(x, y) == IF x \cap y = {} THEN 0 ELSE 1

\* parity of the bitwise AND
liquid_bdotprod(x, y) == Cardinality(x \cap y) % 2

\* 1-based position of the most significant 1 bit; 0 for 0
liquid_msb_index(x) == IF x = {} THEN 0 ELSE Max(x) + 1

----------------------------------------------------------------------------
(* struct msequence_s and the table of defaults *)

LIQUID_MIN_MSEQUENCE_M == 2

LIQUID_MAX_MSEQUENCE_M == 31

msequence_s(m, g, a, n, v, b) ==
    [m |-> m, g |-> g, a |-> a, n |-> n, v |-> v, b |-> b]

\* what ms holds while the handle points at no object
NoObject == msequence_s(0, {}, {}, {}, {}, 0)

\* one row of the table (g, a and v are hexadecimal in the source):
\*                             m   g         a         n                  v         b
DefaultRow(i) ==
    CASE i = 0  -> msequence_s(0,  W(0),     W(1),     W(0),              W(1),     0)
      [] i = 1  -> msequence_s(0,  W(0),     W(1),     W(0),              W(1),     0)
      [] i = 2  -> msequence_s(2,  W(3),     W(2),     Dec(Shl(One, 2)),  W(2),     0)
      [] i = 3  -> msequence_s(3,  W(5),     W(4),     Dec(Shl(One, 3)),  W(4),     0)
      [] i = 4  -> msequence_s(4,  W(9),     W(8),     Dec(Shl(One, 4)),  W(8),     0)
      [] i = 5  -> msequence_s(5,  W(18),    W(16),    Dec(Shl(One, 5)),  W(16),    0)
      [] i = 6  -> msequence_s(6,  W(33),    W(32),    Dec(Shl(One, 6)),  W(32),    0)
      [] i = 7  -> msequence_s(7,  W(68),    W(64),    Dec(Shl(One, 7)),  W(64),    0)
      [] i = 8  -> msequence_s(8,  W(142),   W(128),   Dec(Shl(One, 8)),  W(128),   0)
      [] i = 9  -> msequence_s(9,  W(264),   W(256),   Dec(Shl(One, 9)),  W(256),   0)
      [] i = 10 -> msequence_s(10, W(516),   W(512),   Dec(Shl(One, 10)), W(512),   0)
      [] i = 11 -> msequence_s(11, W(1026),  W(1024),  Dec(Shl(One, 11)), W(1024),  0)
      [] i = 12 -> msequence_s(12, W(2089),  W(2048),  Dec(Shl(One, 12)), W(2048),  0)
      [] i = 13 -> msequence_s(13, W(4109),  W(4096),  Dec(Shl(One, 13)), W(4096),  0)
      [] i = 14 -> msequence_s(14, W(8213),  W(8192),  Dec(Shl(One, 14)), W(8192),  0)
      [] i = 15 -> msequence_s(15, W(16385), W(16384), Dec(Shl(One, 15)), W(16384), 0)

\* the table with row 7's polynomial 0x0044 mistyped as 0x0042
msequence_default_typo ==
    [i \in 0..15 |->
        IF i = 7 THEN [DefaultRow(7) EXCEPT !.g = W(66)] ELSE DefaultRow(i)]

msequence_default == [i \in 0..15 |-> DefaultRow(i)]

----------------------------------------------------------------------------
(* the functions of msequence.c, as functions of the object *)

\* the seed's low m bits taken as they are, not reversed
ReverseLoop_copy(i, m, a, ain) == ain \cap (0..(m - 1))

\* for (i=0; i<m; i++) { a <<= 1; a |= (_a & 0x01); _a >>= 1; }
RECURSIVE ReverseLoop(_, _, _, _)
ReverseLoop(i, m, a, ain) ==
    IF i < m
    THEN ReverseLoop(i + 1, m, Shl(a, 1) \cup (ain \cap One), Shr(ain, 1))
    ELSE a

\* (1<<_m)-1 with the subtraction saturating at 0x80000000 for _m = 31
SequenceLength_sat(m) ==
    IF m >= LIQUID_MAX_MSEQUENCE_M THEN Shl(One, m) ELSE Dec(Shl(One, m))

\* (1<<_m)-1 in 32-bit two's complement arithmetic (for _m = 31 the signed
\* subtraction wraps from 0x80000000 to 0x7FFFFFFF)
SequenceLength(m) == Dec(Shl(One, m))

\* msequence_create storing the polynomial as given, its low bit kept
msequence_create_rawg(m, g, a) ==
    IF m > LIQUID_MAX_MSEQUENCE_M \/ m < LIQUID_MIN_MSEQUENCE_M
    THEN [ok |-> FALSE, obj |-> NoObject]
    ELSE [ok |-> TRUE,
          obj |-> msequence_s(m, g, ReverseLoop(0, m, {}, a),
                              SequenceLength(m), ReverseLoop(0, m, {}, a), 0)]

\* msequence_create refusing the longest register (>= for >)
msequence_create_max30(m, g, a) ==
    IF m >= LIQUID_MAX_MSEQUENCE_M \/ m < LIQUID_MIN_MSEQUENCE_M
    THEN [ok |-> FALSE, obj |-> NoObject]
    ELSE [ok |-> TRUE,
          obj |-> msequence_s(m, Shr(g, 1), ReverseLoop(0, m, {}, a),
                              SequenceLength(m), ReverseLoop(0, m, {}, a), 0)]

\* [ok |-> FALSE]: liquid_error_config's NULL; otherwise obj is the new object
msequence_create(m, g, a) ==
    IF m > LIQUID_MAX_MSEQUENCE_M \/ m < LIQUID_MIN_MSEQUENCE_M
    THEN [ok |-> FALSE, obj |-> NoObject]
    ELSE [ok |-> TRUE,
          obj |-> msequence_s(m, Shr(g, 1), ReverseLoop(0, m, {}, a),
                              SequenceLength(m), ReverseLoop(0, m, {}, a), 0)]

\* msequence_create_genpoly taking the msb index itself for the length
msequence_create_genpoly_len(g) ==
    LET t == liquid_msb_index(g) IN
    IF t < 2
    THEN [ok |-> FALSE, obj |-> NoObject]
    ELSE msequence_create(t, g, One)

msequence_create_genpoly(g) ==
    LET t == liquid_msb_index(g) IN
    IF t < 2
    THEN [ok |-> FALSE, obj |-> NoObject]
    ELSE msequence_create(t - 1, g, One)

\* memmove with its arguments exchanged: the new, still unwritten storage
\* (taken to be zeroed) is copied over row m of the table
CopyDefault_back(tab, m) ==
    [obj |-> NoObject, tab |-> [tab EXCEPT ![m] = NoObject]]

\* memmove(ms, &msequence_default[_m], sizeof(struct msequence_s)): the new
\* object is a copy of row m, and the table is only read
CopyDefault(tab, m) == [obj |-> tab[m], tab |-> tab]

\* msequence_create_default with the static table tab in memory: ok and obj
\* as below, tab the table it leaves
msequence_create_default_from(tab, m) ==
    IF m < LIQUID_MIN_MSEQUENCE_M \/ m > 15
    THEN [ok |-> FALSE, obj |-> NoObject, tab |-> tab]
    ELSE [ok |-> TRUE, obj |-> CopyDefault(tab, m).obj,
          tab |-> CopyDefault(tab, m).tab]

msequence_create_default(m) ==
    [ok  |-> msequence_create_default_from(msequence_default, m).ok,
     obj |-> msequence_create_default_from(msequence_default, m).obj]

\* msequence_advance without its last statement, v &= n
msequence_advance_nomask(q) ==
    LET b == liquid_bdotprod(q.v, q.g) IN
    [q EXCEPT !.b = b, !.v = Shl(q.v, 1) \cup Bit(b)]

\* msequence_advance with the feedback bit put in before the shift
msequence_advance_orshift(q) ==
    LET b == liquid_bdotprod(q.v, q.g) IN
    [q EXCEPT !.b = b, !.v = Shl(q.v \cup Bit(b), 1) \cap q.n]

\* msequence_advance feeding back the complement of the parity
msequence_advance_xnor(q) ==
    LET b == 1 - liquid_bdotprod(q.v, q.g) IN
    [q EXCEPT !.b = b, !.v = (Shl(q.v, 1) \cup Bit(b)) \cap q.n]

msequence_advance(q) ==
    LET b == liquid_bdotprod(q.v, q.g) IN
    [q EXCEPT !.b = b, !.v = (Shl(q.v, 1) \cup Bit(b)) \cap q.n]

\* for (i=0; i<_bps; i++) { s <<= 1; s |= msequence_advance(_ms); }
RECURSIVE SymbolLoop(_, _, _, _)
SymbolLoop(i, bps, q, s) ==
    IF i < bps
    THEN SymbolLoop(i + 1, bps, msequence_advance(q),
                    Shl(s, 1) \cup Bit(msequence_advance(q).b))
    ELSE [ms |-> q, s |-> s]

\* msequence_generate_symbol with its loop started at i = 1
msequence_generate_symbol_from1(q, bps) == SymbolLoop(1, bps, q, {})

msequence_generate_symbol(q, bps) == SymbolLoop(0, bps, q, {})

\* msequence_reset to the seed's customary value 1, not to a
msequence_reset_one(q) == [q EXCEPT !.v = One]

\* msequence_reset clearing the return bit as well
msequence_reset_clearb(q) == [q EXCEPT !.v = q.a, !.b = 0]

msequence_reset(q) == [q EXCEPT !.v = q.a]

\* for (i=0; i<(_ms->n); i++) bsequence_push(_bs, msequence_advance(_ms));
RECURSIVE PushLoop(_, _, _, _)
PushLoop(i, n, q, b) ==
    IF i < n
    THEN PushLoop(i + 1, n, msequence_advance(q),
                  Append(b, msequence_advance(q).b))
    ELSE [ms |-> q, bs |-> b]

\* bsequence_init_msequence pushing m bits, not n
bsequence_init_msequence_m(b, q) == PushLoop(0, q.m, q, <<>>)

\* bsequence_init_msequence without its bsequence_reset
bsequence_init_msequence_noreset(b, q) == PushLoop(0, Val(q.n), q, b)

\* bsequence_reset empties the buffer, bsequence_push appends one bit
bsequence_init_msequence(b, q) == PushLoop(0, Val(q.n), q, <<>>)

\* msequence_get_state reading a for v
msequence_get_state_seed(q) == q.a

msequence_get_genpoly_length(q) == q.m

msequence_get_length(q) == q.n

msequence_get_genpoly(q) == q.g

msequence_get_state(q) == q.v

msequence_set_state(q, a) == [q EXCEPT !.v = a]

----------------------------------------------------------------------------
(* the calls a client makes *)

Call(op, n, g, a, ret, ok) ==
    [op |-> op, n |-> n, g |-> g, a |-> a, ret |-> ret, ok |-> ok]

\* values handed to the constructors and to msequence_set_state
CreateM == 0..33

CreateG == {W(11), AllOnes}

CreateA == {W(0), W(1), W(8), AllOnes}

GenPolyG == {W(0), W(1), W(2), W(3), W(4), W(7), W(11), W(19), AllOnes}

DefaultM == 0..16

SetStateA == {W(0), W(1), W(4), AllOnes}

BpsValues == {0, 1, 3, MaxBps}

Init ==
    /\ ms = NoObject
    /\ ms0 = NoObject
    /\ heap = "none"
    /\ bs = <<>>
    /\ last = Call("none", 0, {}, {}, {}, TRUE)
    /\ hist = <<>>
    /\ table = msequence_default
    /\ ctor = Call("none", 0, {}, {}, {}, TRUE)
    /\ ms2 = NoObject
    /\ heap2 = "none"
    /\ hist2 = <<>>
    /\ epoch = "none"
    /\ restored = FALSE
    /\ nadv = 0
    /\ nones = 0

\* a constructor returned r: the handle takes the new object, or NULL came back
\* and nothing was allocated.  One object is followed, from its construction
\* to its destruction.
Constructed(r) ==
    /\ heap = "none"
    /\ IF r.ok
       THEN /\ ms' = r.obj
            /\ ms0' = r.obj
            /\ heap' = "allocated"
            /\ hist' = <<>>
            /\ epoch' = "create"
            /\ restored' = FALSE
            /\ nadv' = 0
            /\ nones' = 0
       ELSE UNCHANGED <<ms, ms0, heap, hist, epoch, restored, nadv, nones>>
    /\ UNCHANGED bs

Create(m, g, a) ==
    /\ Constructed(msequence_create(m, g, a))
    /\ last' = Call("create", m, g, a, {}, msequence_create(m, g, a).ok)
    /\ UNCHANGED twin

CreateGenPoly(g) ==
    /\ Constructed(msequence_create_genpoly(g))
    /\ last' = Call("create_genpoly", 0, g, {}, {}, msequence_create_genpoly(g).ok)
    /\ UNCHANGED twin

CreateDefault(m) ==
    /\ Constructed(msequence_create_default(m))
    /\ last' = Call("create_default", m, {}, {}, {}, msequence_create_default(m).ok)
    /\ UNCHANGED twin

Destroy ==
    /\ heap = "allocated"
    /\ heap' = "freed"
    /\ ms' = NoObject
    /\ ms0' = NoObject
    /\ hist' = <<>>
    /\ epoch' = "none"
    /\ restored' = FALSE
    /\ last' = Call("destroy", 0, {}, {}, {}, TRUE)
    /\ UNCHANGED <<bs, nadv, nones>>
    /\ UNCHANGED twin

\* msequence_destroy of a handle already destroyed: free() of storage already
\* released is undefined; the allocator may not notice, may corrupt its
\* bookkeeping, or may detect the double free and abort the process
DestroyAgain ==
    /\ heap = "freed"
    /\ heap' \in {"freed", "corrupt", "aborted"}
    /\ last' = Call("destroy", 0, {}, {}, {}, heap' # "aborted")
    /\ UNCHANGED <<ms, ms0, bs, hist, epoch, restored, nadv, nones>>
    /\ UNCHANGED twin

\* the object is live and short enough to be explored
Usable == heap = "allocated" /\ ms.m <= MaxOpM

Followed == epoch # "none" /\ Len(hist) < MaxHist

Unfollow ==
    /\ hist' = <<>>
    /\ epoch' = "none"
    /\ restored' = FALSE

AdvanceStep ==
    /\ ms' = msequence_advance(ms)
    /\ last' = Call("advance", 0, {}, {}, Bit(msequence_advance(ms).b), TRUE)
    /\ IF Followed
       THEN /\ hist' = Append(hist, msequence_advance(ms).b)
            /\ UNCHANGED <<epoch, restored>>
       ELSE Unfollow
    /\ UNCHANGED <<ms0, heap, bs>>

Advance ==
    /\ Usable
    /\ AdvanceStep
    /\ UNCHANGED <<nadv, nones>>
    /\ UNCHANGED twin

GenerateSymbolStep(bps) ==
    /\ ms' = msequence_generate_symbol(ms, bps).ms
    /\ last' = Call("generate_symbol", bps, {}, {},
                    msequence_generate_symbol(ms, bps).s, TRUE)
    /\ Unfollow
    /\ UNCHANGED <<ms0, heap, bs>>

GenerateSymbol(bps) ==
    /\ Usable
    /\ GenerateSymbolStep(bps)
    /\ UNCHANGED <<nadv, nones>>
    /\ UNCHANGED twin

ResetStep ==
    /\ ms' = msequence_reset(ms)
    /\ last' = Call("reset", 0, {}, {}, {}, TRUE)
    /\ hist' = <<>>
    /\ epoch' = "reset"
    /\ restored' = FALSE
    /\ UNCHANGED <<ms0, heap, bs>>

Reset ==
    /\ Usable
    /\ ResetStep
    /\ UNCHANGED <<nadv, nones>>
    /\ UNCHANGED twin

GetState ==
    /\ Usable
    /\ last' = Call("get_state", 0, {}, {}, msequence_get_state(ms), TRUE)
    /\ UNCHANGED <<ms, ms0, heap, bs, hist, epoch, restored, nadv, nones>>
    /\ UNCHANGED twin

GetGenpolyLength ==
    /\ Usable
    /\ last' = Call("get_genpoly_length", 0, {}, {},
                    W(msequence_get_genpoly_length(ms)), TRUE)
    /\ UNCHANGED <<ms, ms0, heap, bs, hist, epoch, restored, nadv, nones>>
    /\ UNCHANGED twin

GetLength ==
    /\ Usable
    /\ last' = Call("get_length", 0, {}, {}, msequence_get_length(ms), TRUE)
    /\ UNCHANGED <<ms, ms0, heap, bs, hist, epoch, restored, nadv, nones>>
    /\ UNCHANGED twin

GetGenpoly ==
    /\ Usable
    /\ last' = Call("get_genpoly", 0, {}, {}, msequence_get_genpoly(ms), TRUE)
    /\ UNCHANGED <<ms, ms0, heap, bs, hist, epoch, restored, nadv, nones>>
    /\ UNCHANGED twin

\* the value set is one of SetStateA, or the one msequence_get_state just gave
SetStateStep(a) ==
    /\ ms' = msequence_set_state(ms, a)
    /\ last' = Call("set_state", 0, {}, a, {}, TRUE)
    /\ IF epoch # "none" /\ last.op = "get_state" /\ a = last.ret
       THEN /\ restored' = TRUE
            /\ UNCHANGED <<hist, epoch>>
       ELSE Unfollow
    /\ UNCHANGED <<ms0, heap, bs, nadv, nones>>

SetState(a) ==
    /\ Usable
    /\ SetStateStep(a)
    /\ UNCHANGED twin

InitStep ==
    /\ ms' = bsequence_init_msequence(bs, ms).ms
    /\ bs' = bsequence_init_msequence(bs, ms).bs
    /\ last' = Call("init_msequence", 0, {}, {}, {}, TRUE)
    /\ Unfollow
    /\ UNCHANGED <<ms0, heap>>

InitFromSequence ==
    /\ Usable
    /\ InitStep
    /\ UNCHANGED <<nadv, nones>>
    /\ UNCHANGED twin

Next ==
    \/ \E m \in CreateM, g \in CreateG, a \in CreateA : Create(m, g, a)
    \/ \E g \in GenPolyG : CreateGenPoly(g)
    \/ \E m \in DefaultM : CreateDefault(m)
    \/ Destroy
    \/ DestroyAgain
    \/ Advance
    \/ \E bps \in BpsValues : GenerateSymbol(bps)
    \/ Reset
    \/ GetState
    \/ GetGenpolyLength
    \/ GetLength
    \/ GetGenpoly
    \/ \E a \in SetStateA \cup (IF last.op = "get_state" THEN {last.ret} ELSE {}) :
          SetState(a)
    \/ InitFromSequence

Spec == Init /\ [][Next]_vars

----------------------------------------------------------------------------
(* two objects and the static table: an object is constructed, operated on
   and destroyed, while a second one is made by the same constructor call
   and advanced *)

\* the constructor calls made
PairCalls ==
    { Call("create_default", 2, {}, {}, {}, TRUE),
      Call("create_default", 3, {}, {}, {}, TRUE),
      Call("create_genpoly", 0, W(11), {}, {}, TRUE),
      Call("create", 3, W(13), W(3), {}, TRUE) }

PairA == {W(0), W(1)}

PairBps == {2}

\* the constructor call c, made with the static table tab in memory
Construct(tab, c) ==
    CASE c.op = "create" ->
           [ok  |-> msequence_create(c.n, c.g, c.a).ok,
            obj |-> msequence_create(c.n, c.g, c.a).obj,
            tab |-> tab]
      [] c.op = "create_genpoly" ->
           [ok  |-> msequence_create_genpoly(c.g).ok,
            obj |-> msequence_create_genpoly(c.g).obj,
            tab |-> tab]
      [] OTHER -> msequence_create_default_from(tab, c.n)

PairCreate(c) ==
    /\ Constructed(Construct(table, c))
    /\ last' = Call(c.op, c.n, c.g, c.a, {}, Construct(table, c).ok)
    /\ ctor' = c
    /\ table' = Construct(table, c).tab
    /\ UNCHANGED <<ms2, heap2, hist2>>

\* the same call again, whatever was done with the first object since
TwinCreate ==
    /\ heap \in {"allocated", "freed"}
    /\ heap2 = "none"
    /\ Construct(table, ctor).ok
    /\ ms2' = Construct(table, ctor).obj
    /\ heap2' = "allocated"
    /\ hist2' = <<>>
    /\ table' = Construct(table, ctor).tab
    /\ UNCHANGED <<ms, ms0, heap, bs, last, hist, epoch, restored, nadv, nones,
                   ctor>>

TwinAdvance ==
    /\ heap2 = "allocated"
    /\ Len(hist2) < MaxTwinAdv
    /\ ms2' = msequence_advance(ms2)
    /\ hist2' = Append(hist2, msequence_advance(ms2).b)
    /\ UNCHANGED <<ms, ms0, heap, bs, last, hist, epoch, restored, nadv, nones,
                   table, ctor, heap2>>

NextPair ==
    \/ \E c \in PairCalls : PairCreate(c)
    \/ TwinCreate
    \/ TwinAdvance
    \/ Advance
    \/ \E bps \in PairBps : GenerateSymbol(bps)
    \/ Reset
    \/ \E a \in PairA : SetState(a)
    \/ Destroy

SpecPair == Init /\ [][NextPair]_vars

----------------------------------------------------------------------------
(* registers of every length 2..31: msequence_create, then a few calls of
   msequence_advance, from the seed or from a state set by
   msequence_set_state *)

WideM == LIQUID_MIN_MSEQUENCE_M..LIQUID_MAX_MSEQUENCE_M

WideG == {W(11), AllOnes}

WideA == {W(1), AllOnes}

\* (1<<_m)-1 is computed in int: for _m = 31 both the shift and the
\* subtraction leave the range of int, which is undefined; a build with
\* trapping overflow stops there, any other computes it in 32-bit two's
\* complement arithmetic (SequenceLength)
CreateTrapped(g, a) ==
    /\ heap = "none"
    /\ heap' = "trapped"
    /\ last' = Call("create", LIQUID_MAX_MSEQUENCE_M, g, a, {}, FALSE)
    /\ UNCHANGED <<ms, ms0, bs, hist, epoch, restored, nadv, nones>>
    /\ UNCHANGED twin

AdvanceWide ==
    /\ heap = "allocated"
    /\ nadv < MaxWideAdv
    /\ AdvanceStep
    /\ nadv' = nadv + 1
    /\ nones' = nones + msequence_advance(ms).b
    /\ UNCHANGED twin

SetStateWide(a) ==
    /\ heap = "allocated"
    /\ nadv < MaxWideAdv
    /\ last.op # "set_state"
    /\ SetStateStep(a)
    /\ UNCHANGED twin

NextWide ==
    \/ \E m \in WideM, g \in WideG, a \in WideA : Create(m, g, a)
    \/ \E g \in WideG, a \in WideA : CreateTrapped(g, a)
    \/ AdvanceWide
    \/ \E a \in {W(0), AllOnes} : SetStateWide(a)

SpecWide == Init /\ [][NextWide]_vars

----------------------------------------------------------------------------
(* one period of each default generator: msequence_create_default(m), then
   msequence_advance called sequenceLength times, the calls and the 1 bits
   they return counted *)

AdvanceCounted ==
    /\ heap = "allocated"
    /\ nadv < Val(ms.n)
    /\ AdvanceStep
    /\ nadv' = nadv + 1
    /\ nones' = nones + msequence_advance(ms).b
    /\ UNCHANGED twin

NextPeriod ==
    \/ \E m \in DefaultM : CreateDefault(m)
    \/ AdvanceCounted

SpecPeriod == Init /\ [][NextPeriod]_vars

----------------------------------------------------------------------------
(* a bsequence filled from a default generator: msequence_create_default(m),
   then at most sequenceLength advances, made by msequence_advance and, on
   the registers short enough to be filled from, by
   msequence_generate_symbol, started anew by msequence_reset, and then
   bsequence_init_msequence, whose sequenceLength advances are counted too *)

FillBps == {3}

\* the object is live and short enough for its whole sequence to be stored
Fillable == heap = "allocated" /\ ms.m <= MaxFillM

GenerateSymbolCounted(bps) ==
    /\ Fillable
    /\ nadv + bps <= Val(ms.n)
    /\ GenerateSymbolStep(bps)
    /\ nadv' = nadv + bps
    /\ nones' = nones + Cardinality(msequence_generate_symbol(ms, bps).s)
    /\ UNCHANGED twin

ResetCounted ==
    /\ Fillable
    /\ 0 < nadv
    /\ nadv < Val(ms.n)
    /\ ResetStep
    /\ nadv' = 0
    /\ nones' = 0
    /\ UNCHANGED twin

InitCounted ==
    /\ Fillable
    /\ nadv < Val(ms.n)
    /\ InitStep
    /\ nadv' = nadv + Len(bs')
    /\ nones' = nones + Cardinality({i \in 1..Len(bs') : bs'[i] = 1})
    /\ UNCHANGED twin

NextFill ==
    \/ \E m \in DefaultM : CreateDefault(m)
    \/ AdvanceCounted
    \/ \E bps \in FillBps : GenerateSymbolCounted(bps)
    \/ ResetCounted
    \/ InitCounted

SpecFill == Init /\ [][NextFill]_vars

----------------------------------------------------------------------------
(* what the claims speak of *)

\* the object after k calls of msequence_advance
RECURSIVE AdvanceN(_, _)
AdvanceN(q, k) == IF k = 0 THEN q ELSE AdvanceN(msequence_advance(q), k - 1)

\* the bits those k calls return, in order
RECURSIVE FirstBits(_, _)
FirstBits(q, k) ==
    IF k = 0
    THEN <<>>
    ELSE <<msequence_advance(q).b>> \o FirstBits(msequence_advance(q), k - 1)

\* the number b1*2^(k-1) + ... + bk*2^0 for the bits b1..bk those k calls
\* return, as the set of the positions of its 1 bits (position k-1 may lie
\* beyond a 32-bit word)
RECURSIVE SymbolValue(_, _)
SymbolValue(q, k) ==
    IF k = 0
    THEN {}
    ELSE (IF msequence_advance(q).b = 1 THEN {k - 1} ELSE {})
         \cup SymbolValue(msequence_advance(q), k - 1)

Bits(b) == {b[i] : i \in 1..Len(b)}

----------------------------------------------------------------------------
(* C1: in every state of a constructed object, whatever calls were made,
   0 <= currentState <= sequenceLength: the register is masked to
   registerLength bits.  msequence_set_state stores its argument unmasked,
   so the statement fails after set_state(4) on a 2-bit register. *)
C1_StateInRange == heap = "allocated" => LeqU(ms.v, ms.n)

(* C2: a generator from msequence_create_default(m), 2 <= m <= 15, has period
   exactly sequenceLength = 2^m - 1: after sequenceLength advances the
   register is back at initialState, after fewer (and at least one) it is
   not, and the bits returned over the period are not all equal. *)
C2_Period ==
    heap = "allocated" =>
        /\ ms.m \in 2..15
        /\ Val(ms.n) = 2^ms.m - 1
        /\ (0 < nadv /\ nadv < Val(ms.n)) => ms.v # ms0.a
        /\ nadv = Val(ms.n) => (ms.v = ms0.a /\ 0 < nones /\ nones < nadv)

C2_Witness == heap = "allocated" /\ ms.m = 8 /\ nadv = 255 /\ ms.v = ms0.a

(* C3: the first sequenceLength bits a generator from
   msequence_create_default(m) returns hold exactly 2^(m-1) ones and
   2^(m-1) - 1 zeros. *)
C3_Balance ==
    (heap = "allocated" /\ nadv = Val(ms.n)) =>
        /\ nones = 2^(ms.m - 1)
        /\ nadv - nones = 2^(ms.m - 1) - 1

C3_Witness == heap = "allocated" /\ ms.m = 7 /\ nadv = 127 /\ nones = 64

(* C4: whatever was called before it, msequence_reset followed by N advances
   returns the N bits that the first N advances after construction return. *)
C4_ResetReplays == epoch = "reset" => hist = FirstBits(ms0, Len(hist))

C4_Witness ==
    /\ epoch = "reset"
    /\ Len(hist) = MaxHist
    /\ Bits(hist) = {0, 1}
    /\ ms.m = 3

(* C5: msequence_set_state(msequence_get_state(q)) leaves q as it was, and
   advances interleaved with such capture/restore pairs return the bits, and
   end in the register state, that the same number of advances alone give. *)
C5_RoundTrip ==
    [][ /\ (last.op = "get_state" /\ last'.op = "set_state" /\ last'.a = last.ret)
            => ms' = ms
        /\ restored' =>
            /\ hist' = FirstBits(ms0', Len(hist'))
            /\ ms'.v = AdvanceN(ms0', Len(hist')).v ]_vars

C5_Witness ==
    /\ restored
    /\ epoch = "create"
    /\ Len(hist) = MaxHist
    /\ Bits(hist) = {0, 1}

(* C6: msequence_create(m, g, a), 2 <= m <= 31, stores as initialState the
   low m bits of a in reverse order (bit m-1-i of it is bit i of a) and
   nothing above them; create(4, g, 0001b) stores 1000b and
   create(4, g, 1000b) stores 0001b.  The new object has
   currentState = initialState and lastOutputBit = 0. *)
C6_SeedReversed ==
    (last.op = "create" /\ last.ok) =>
        /\ \A i \in 0..(last.n - 1) : (last.n - 1 - i) \in ms.a <=> i \in last.a
        /\ ms.a \subseteq 0..(last.n - 1)
        /\ (last.n = 4 /\ last.a = W(1)) => ms.a = W(8)
        /\ (last.n = 4 /\ last.a = W(8)) => ms.a = W(1)
        /\ ms.v = ms.a
        /\ ms.b = 0

C6_Witness ==
    /\ last.op = "create"
    /\ last.ok
    /\ last.n = 31
    /\ last.a = AllOnes
    /\ ms.a = 0..30

(* C7: msequence_generate_symbol(q, k) returns b1*2^(k-1) + ... + bk*2^0,
   b1..bk being the bits k advances return from that state, and leaves the
   object as those k advances leave it -- for every k. *)
C7_SymbolExact ==
    [][last'.op = "generate_symbol" =>
        /\ last'.ret = SymbolValue(ms, last'.n)
        /\ ms' = AdvanceN(ms, last'.n)]_vars

(* C7 amended: the value returned is that number modulo 2^32 (the number
   itself whenever k <= 32), and the object is left as k advances leave it. *)
C7_SymbolMod32 ==
    [][last'.op = "generate_symbol" =>
        /\ last'.ret = SymbolValue(ms, last'.n) \cap Bits32
        /\ ms' = AdvanceN(ms, last'.n)]_vars

\* 33 bits 1,1,0,1,1,0,... asked of the default 2-bit generator: the first
\* of them has left the 32-bit result
C7_Witness ==
    /\ last.op = "generate_symbol"
    /\ last.n = 33
    /\ ms.m = 2
    /\ last.ret = {p \in Bits32 : p % 3 # 0}

(* C8: bsequence_init_msequence empties the buffer and pushes sequenceLength
   bits: afterwards the buffer holds exactly the bits that sequenceLength
   advances return from the generator's state at the call, in order, and
   nothing of what it held before. *)
C8_BufferFilled ==
    [][last'.op = "init_msequence" =>
        /\ Len(bs') = 2^ms.m - 1
        /\ bs' = FirstBits(ms, 2^ms.m - 1)
        /\ ms' = AdvanceN(ms, 2^ms.m - 1)]_vars

C8_Witness ==
    /\ last.op = "init_msequence"
    /\ Len(bs) = 7
    /\ bs[1] = 1
    /\ Bits(bs) = {0, 1}

(* C9: msequence_create fails (returns NULL, no object) exactly when m < 2 or
   m > 31, msequence_create_default exactly when m < 2 or m > 15; otherwise
   the object made has registerLength = m.  A failed construction allocates
   nothing and changes nothing. *)
C9_Range ==
    [][ /\ last'.op = "create" =>
            (last'.ok <=> (2 <= last'.n /\ last'.n <= 31))
        /\ last'.op = "create_default" =>
            (last'.ok <=> (2 <= last'.n /\ last'.n <= 15))
        /\ (last'.op \in {"create", "create_default"} /\ last'.ok) =>
            (heap' = "allocated" /\ ms'.m = last'.n)
        /\ (last'.op \in {"create", "create_default"} /\ ~last'.ok) =>
            (heap' = "none" /\ UNCHANGED <<ms, ms0, heap, bs>>) ]_vars

C9_Witness ==
    /\ last.op = "create_default"
    /\ ~last.ok
    /\ last.n = 16
    /\ heap = "none"

(* C10: msequence_create_genpoly(g) fails exactly when g < 4; otherwise the
   object is the one msequence_create(m, g, 1) makes, m + 1 being the 1-based
   position of the highest 1 bit of g: polynomial = g >> 1 and
   initialState = currentState = 2^(m-1). *)
C10_GenPoly ==
    last.op = "create_genpoly" =>
        /\ last.ok <=> ~(last.g \subseteq {0, 1})
        /\ last.ok =>
            /\ heap = "allocated"
            /\ ms.m = Max(last.g)
            /\ ms.g = Shr(last.g, 1)
            /\ ms.a = {ms.m - 1}
            /\ ms.v = {ms.m - 1}
            /\ ms = msequence_create(Max(last.g), last.g, One).obj
        /\ ~last.ok => heap = "none"

C10_Witness ==
    /\ last.op = "create_genpoly"
    /\ last.ok
    /\ last.g = W(19)
    /\ ms.m = 4
    /\ ms.v = W(8)

(* C11: the polynomial stored by any constructor, msequence_create being
   given any raw value g, has no bit at position registerLength or above:
   polynomial < 2^registerLength, in every state of the object.
   msequence_create stores _g >> 1 unmasked, so the statement fails for
   create(2, 0xB, a), which stores 101b in a 2-bit generator. *)
C11_PolynomialWidth ==
    heap = "allocated" => ms.g \subseteq 0..(ms.m - 1)

(* C12: once constructed, registerLength, polynomial, initialState and
   sequenceLength never change: msequence_advance and
   msequence_generate_symbol change only currentState and lastOutputBit,
   msequence_reset and msequence_set_state only currentState, and
   msequence_get_state and the accessors of registerLength, sequenceLength
   and polynomial change nothing and return the field they name. *)
C12_Frame ==
    [][(heap = "allocated" /\ heap' = "allocated") =>
        /\ ms'.m = ms.m /\ ms'.g = ms.g /\ ms'.a = ms.a /\ ms'.n = ms.n
        /\ ms0' = ms0
        /\ last'.op \in {"advance", "generate_symbol", "reset", "set_state"}
             => bs' = bs
        /\ last'.op \in {"reset", "set_state"} => ms'.b = ms.b
        /\ last'.op \in {"get_state", "get_genpoly_length", "get_length",
                         "get_genpoly"}
             => (ms' = ms /\ bs' = bs)
        /\ last'.op = "get_genpoly_length" => last'.ret = W(ms.m)
        /\ last'.op = "get_length" => last'.ret = ms.n
        /\ last'.op = "get_genpoly" => last'.ret = ms.g ]_vars

\* the polynomial read from an object that has been advanced away from its
\* initial state
C12_Witness ==
    /\ last.op = "get_genpoly"
    /\ last.ret = W(5)
    /\ ms.m = 3
    /\ ms.b = 1
    /\ ms.v # ms.a
    /\ ms.a = ms0.a

(* C13: the all-zero register is a lock state: whenever currentState is 0,
   msequence_advance returns 0 and leaves currentState 0, whatever the
   polynomial; so do the calls made of advances (generate_symbol returns 0,
   init_msequence pushes only 0 bits), and only msequence_set_state or
   msequence_reset installing a non-zero value leaves the state. *)
C13_ZeroLock ==
    [][(heap = "allocated" /\ heap' = "allocated" /\ ms.v = {}) =>
        /\ last'.op = "advance"
             => (ms'.v = {} /\ ms'.b = 0 /\ last'.ret = {})
        /\ last'.op = "generate_symbol" => (ms'.v = {} /\ last'.ret = {})
        /\ last'.op = "init_msequence"
             => (ms'.v = {} /\ \A i \in 1..Len(bs') : bs'[i] = 0)
        /\ ms'.v # {} => \/ last'.op = "set_state" /\ last'.a = ms'.v
                         \/ last'.op = "reset" /\ ms.a = ms'.v ]_vars

\* a generator constructed with the seed 0 and a non-zero polynomial has
\* returned 0 three times and more, and is still in state 0
C13_Witness ==
    /\ heap = "allocated"
    /\ last.op = "advance"
    /\ epoch = "create"
    /\ ms.a = {}
    /\ ms.g # {}
    /\ ms.v = {}
    /\ Len(hist) >= 3
    /\ \A i \in 1..Len(hist) : hist[i] = 0

(* C16: when currentState v and polynomial g both fit in registerLength = m
   bits, one msequence_advance sets currentState to
   (2*v + parity(v AND g)) mod 2^m: bits 1..m-1 of the new state are bits
   0..m-2 of the old one, bit m-1 of the old state is discarded, and the
   returned bit = lastOutputBit = bit 0 of the new state = parity(v AND g). *)
C16_AdvanceArithmetic ==
    [][(/\ heap = "allocated" /\ heap' = "allocated"
        /\ last'.op = "advance"
        /\ ms.v \subseteq 0..(ms.m - 1)
        /\ ms.g \subseteq 0..(ms.m - 1)) =>
        LET par == Cardinality({i \in ms.v : i \in ms.g}) % 2 IN
        /\ Val(ms'.v) = (2 * Val(ms.v) + par) % (2^ms.m)
        /\ \A i \in 1..(ms.m - 1) : (i \in ms'.v) <=> (i - 1 \in ms.v)
        /\ ms'.v \subseteq 0..(ms.m - 1)
        /\ (0 \in ms'.v) <=> (par = 1)
        /\ ms'.b = par
        /\ last'.ret = Bit(par) ]_vars

\* the default 3-bit generator (g = 101b) advanced twice from 100b: bit 2 was
\* discarded by the first call, and both calls fed back a 1
C16_Witness ==
    /\ heap = "allocated"
    /\ last.op = "advance"
    /\ last.ret = One
    /\ ms0 = msequence_default[3]
    /\ epoch = "create"
    /\ hist = <<1, 1>>
    /\ ms.v = W(3)
    /\ ms.b = 1

(* C17: for m in 2..15, the object msequence_create_default(m) returns equals,
   field for field (m, g, a, n, v, b), the object
   msequence_create(m, 2*G + 1, 1) returns, G being the polynomial of row m
   of the table of defaults. *)
C17_DefaultIsCreate ==
    (heap = "allocated" /\ last.op = "create_default") =>
        LET G == msequence_default[last.n].g
            r == msequence_create(last.n, Shl(G, 1) \cup One, One)
        IN  /\ last.n \in 2..15
            /\ r.ok
            /\ ms.m = r.obj.m /\ ms.g = r.obj.g /\ ms.a = r.obj.a
            /\ ms.n = r.obj.n /\ ms.v = r.obj.v /\ ms.b = r.obj.b

\* the longest default generator: G = 0x4001, raw polynomial 0x8003
C17_Witness ==
    /\ heap = "allocated"
    /\ last.op = "create_default"
    /\ last.n = 15
    /\ ms.g = W(16385)
    /\ ms.a = {14}
    /\ ms = msequence_create(15, W(32771), One).obj

\* msequence_advance maps no two m-bit states of q to the same state
AdvanceInjective(q) ==
    \A x, y \in SUBSET (0..(q.m - 1)) :
        x # y => msequence_advance(msequence_set_state(q, x)).v
                   # msequence_advance(msequence_set_state(q, y)).v

\* one of the next k calls of msequence_advance(q) brings the state x
RECURSIVE ReturnsWithin(_, _, _)
ReturnsWithin(q, x, k) ==
    IF k = 0
    THEN FALSE
    ELSE \E p \in {msequence_advance(q)} :
            p.v = x \/ ReturnsWithin(p, x, k - 1)

(* C19: when bit registerLength - 1 of the stored polynomial is set, which
   it is in every object of msequence_create_genpoly and
   msequence_create_default, msequence_advance is injective on the
   registerLength-bit states: a non-zero state within the register never
   becomes zero under msequence_advance or msequence_generate_symbol, and
   every state within the register comes back after at most sequenceLength
   advances. *)
C19_Injective ==
    [][heap' = "allocated" =>
        /\ (last'.op \in {"create_genpoly", "create_default"} /\ heap = "none")
             => (ms'.m - 1) \in ms'.g
        /\ (heap = "none" /\ (ms'.m - 1) \in ms'.g /\ ms'.m <= MaxInjM)
             => /\ AdvanceInjective(ms')
                /\ \A x \in SUBSET (0..(ms'.m - 1)) :
                      /\ x # {} => msequence_advance(msequence_set_state(ms', x)).v # {}
                      /\ ReturnsWithin(msequence_set_state(ms', x), x, Val(ms'.n))
        /\ (/\ heap = "allocated"
            /\ (ms.m - 1) \in ms.g
            /\ last'.op \in {"advance", "generate_symbol"}
            /\ ms.v # {}
            /\ ms.v \subseteq 0..(ms.m - 1))
             => (ms'.v # {} /\ ms'.v \subseteq 0..(ms.m - 1)) ]_vars

\* the default 3-bit generator is back in its initial state after
\* sequenceLength = 7 advances, none of which brought the state 0
C19_Witness ==
    /\ heap = "allocated"
    /\ last.op = "advance"
    /\ ms0 = msequence_default[3]
    /\ epoch = "create"
    /\ ~restored
    /\ Len(hist) = 7
    /\ ms.v = ms0.v
    /\ ms.v # {}

(* C15: msequence_destroy always succeeds and is idempotent as to the release
   of memory: a second msequence_destroy of the same handle releases nothing
   further and reaches no invalid memory state.  msequence_destroy calls
   free() on the handle unconditionally, so the second call frees released
   storage. *)
C15_DestroyIdempotent ==
    /\ heap \notin {"corrupt", "aborted"}
    /\ last.op = "destroy" => last.ok

(* C18: for every m in 2..31, m = 31 included, msequence_create stores
   sequenceLength = 2^m - 1 (all of the bits 0..m-1) when (1 << m) - 1 is
   evaluated in 32-bit arithmetic, and every later msequence_advance keeps
   currentState <= 2^m - 1 without losing the feedback bit shifted in: the
   left shift of a state of up to 31 bits does not leave the 32-bit word
   before the mask is applied. *)
C18_WideRegister ==
    [][heap' = "allocated" =>
        /\ ms'.m \in 2..31
        /\ ms'.n = 0..(ms'.m - 1)
        /\ last'.op = "create" => (ms'.m = last'.n /\ ms'.v \subseteq ms'.n)
        /\ (heap = "allocated" /\ last'.op = "advance") =>
              /\ ms'.v \subseteq 0..(ms.m - 1)
              /\ LeqU(ms'.v, ms'.n)
              /\ ms'.b = Cardinality({i \in ms.v : i \in ms.g}) % 2
              /\ (0 \in ms'.v) <=> (ms'.b = 1)
              /\ last'.ret = Bit(ms'.b)
              /\ \A i \in 1..(ms.m - 1) : (i \in ms'.v) <=> (i - 1 \in ms.v) ]_vars

\* the 31-bit register, n = 0x7FFFFFFF, advanced from the state 0xFFFFFFFF
\* that msequence_set_state left: bit 30 of the old state went to bit 31 and
\* was masked off, bit 29 is now bit 30 and the feedback bit is bit 0
C18_Witness ==
    /\ heap = "allocated"
    /\ ms.m = 31
    /\ ms.n = 0..30
    /\ last.op = "advance"
    /\ nadv = MaxWideAdv
    /\ ms.v = 0..30
    /\ ms.b = 1
    /\ ms0.a = {30}

\* the k-th call of msequence_advance(q) leaves the object r, in the state x,
\* and none of the calls before it brings the state x
RECURSIVE OnePeriod(_, _, _, _)
OnePeriod(q, x, k, r) ==
    \E p \in {msequence_advance(q)} :
        IF k = 1
        THEN p = r /\ p.v = x
        ELSE p.v # x /\ OnePeriod(p, x, k - 1, r)

(* C20: on a generator of msequence_create_default(m), m in 2..15, in any
   non-zero state within the register (reached by any number of advance,
   generate_symbol or reset calls), bsequence_init_msequence performs exactly
   one full period: it makes sequenceLength advances, the state it leaves is
   the state it found, and no fewer advances bring that state back.  For
   every m in 2..15 the advances counted from the initial state pass through
   sequenceLength distinct states, all the non-zero states of the register,
   before the initial state comes back. *)
C20_FillIsOnePeriod ==
    [][(/\ heap = "allocated" /\ heap' = "allocated"
        /\ ms0 = msequence_default[ms.m]
        /\ ms.v # {}
        /\ ms.v \subseteq 0..(ms.m - 1)) =>
        /\ last'.op = "init_msequence" =>
              /\ ms'.v = ms.v
              /\ Len(bs') = Val(ms.n)
              /\ OnePeriod(ms, ms.v, Val(ms.n), ms')
        /\ (0 < nadv' /\ nadv' < Val(ms.n)) => ms'.v # ms0.v
        /\ nadv' = Val(ms.n) => ms'.v = ms0.v
        /\ ms'.v # {} ]_vars

\* the default 5-bit generator, five advances away from its initial state,
\* has filled the bsequence with 31 bits and is in that same state
C20_Witness ==
    /\ heap = "allocated"
    /\ last.op = "init_msequence"
    /\ ms.m = 5
    /\ ms0 = msequence_default[5]
    /\ Len(bs) = 31
    /\ nadv = 36
    /\ ms.v = AdvanceN(ms0, 5).v
    /\ ms.v # ms0.v

(* C14: objects are independent and construction is deterministic: two
   objects made by the same constructor call return the same bits when
   advanced the same number of times, whatever was done (advance,
   generate_symbol, reset, set_state, destroy) with the other object before
   or in between; no call changes the table of defaults, so a later
   msequence_create_default(m) gives the same initial fields. *)
C14_Independent ==
    /\ table = msequence_default
    /\ heap = "allocated" => ms0 = Construct(msequence_default, ctor).obj
    /\ heap2 = "allocated" =>
          /\ ms2 = AdvanceN(Construct(msequence_default, ctor).obj, Len(hist2))
          /\ hist2 = FirstBits(Construct(msequence_default, ctor).obj, Len(hist2))
          /\ (heap = "allocated" /\ epoch = "create") =>
                \A i \in 1..Len(hist) : i <= Len(hist2) => hist[i] = hist2[i]
          /\ (heap = "allocated" /\ Len(hist2) = 0) => ms2 = ms0

\* the second default 3-bit generator was made after the first one had been
\* advanced and set to another state; advanced three times it has returned
\* the bits of a fresh generator, while the first one is somewhere else
C14_Witness ==
    /\ heap = "allocated"
    /\ heap2 = "allocated"
    /\ ctor.op = "create_default"
    /\ ctor.n = 3
    /\ last.op = "set_state"
    /\ hist2 = <<1, 1, 1>>
    /\ ms2.v = W(7)
    /\ ms.v = W(1)
    /\ ms.b = 1

====
